---- MODULE Spec2Model ----
(***************************************************************************)
(* GitScout (src/main.py): a FastAPI process that polls the GitHub search  *)
(* API, deduplicates the issues it has already seen and forwards the new   *)
(* ones to a Discord webhook.                                              *)
(*                                                                         *)
(* Execution contexts of the process:                                      *)
(*   "bg"        the daemon thread running background_worker;              *)
(*   "c1", "c2"  coroutines of the async endpoint cron_check, scheduled on *)
(*               the one event-loop thread (they interleave with each      *)
(*               other only at an await);                                  *)
(*   "api"       a thread-pool thread running one of the synchronous       *)
(*               endpoints update_config, start_watch, stop_watch,         *)
(*               get_issues.                                               *)
(* Threads interleave at every access to the global `config` object and to *)
(* the file config.json: the code takes no lock.                           *)
(***************************************************************************)
EXTENDS Integers, Sequences, FiniteSets, TLC

(* ----------------------------- bounds --------------------------------- *)
\* issue identifiers are 1..MaxId; an item is modelled by its "id" field
MaxId == 3
\* longest list of items a fetch returns
MaxFetch == 3
\* how many requests the operator sends to the endpoints
MaxRequests == 2
\* how many of them while the worker's loop is followed for ever
LoopRequests == 1
\* longest list of new items a fetch returns to the cycle that notifies
MaxBatch == 7

(* ------------------------- program constants --------------------------- *)
\* SearchConfig.polling_interval default
DefaultInterval == 120
\* max(cfg.search.polling_interval, 30)
PollFloor == 30
\* time.sleep(30) of the except branch
Backoff == 30
\* issues[:5]
MaxEmbeds == 5

\* it.get("id") of an item that carries no "id" key
NoId == 0
Ids == 1..MaxId
Items == Ids \cup {NoId}

SeqsUpTo(S, n) == UNION {[1..k -> S] : k \in 0..n}
\* what data.get("items", []) of a successful search can be
FetchResults == SeqsUpTo(Items, MaxFetch)
\* the fetch results of the specification with all contexts running
SmallFetch == {<<1>>}

Crons == {"c1", "c2"}
Cyclers == Crons \cup {"bg"}
Procs == Cyclers \cup {"api"}

SearchConfig(orgs, ival) ==
    [organizations |-> orgs, languages |-> <<>>, polling_interval |-> ival]
NotificationConfig(url) == [webhook_url |-> url]
AppConfig(s, n, a, k, l) ==
    [search |-> s, notif |-> n, is_active |-> a, known_issue_ids |-> k,
     last_items |-> l]

\* the default of load_config when config.json does not exist
DefaultConfig ==
    AppConfig(SearchConfig(<<>>, DefaultInterval), NotificationConfig("None"),
              FALSE, {}, <<>>)

\* request bodies of POST /config
UpdateConfigRequest(orgs, ival, url) ==
    [search |-> SearchConfig(orgs, ival), notif |-> NotificationConfig(url)]
SmallBodies == {UpdateConfigRequest(<<"org">>, 5, "url")}
Bodies == {UpdateConfigRequest(<<"org">>, i, "url") : i \in {-1, 0, 5, 30, 45}}

(* --------------------------- pure helpers ------------------------------ *)
Min(a, b) == IF a < b THEN a ELSE b
maxMutant(a, b) == a
max(a, b) == IF a > b THEN a ELSE b

RECURSIVE SetToList(_)
\* list(cfg.known_issue_ids): the elements of the set, each once
SetToList(S) ==
    IF S = {} THEN <<>>
    ELSE LET m == CHOOSE x \in S : \A y \in S : x <= y
         IN <<m>> \o SetToList(S \ {m})
\* set(raw.get("known_issue_ids", []))
ListToSet(l) == {l[i] : i \in DOMAIN l}

\* cfg.dict() with the set turned into a list, as json.dump writes it
ToJsonMutant(c) == [c EXCEPT !.known_issue_ids = <<>>]
ToJson(c) == [c EXCEPT !.known_issue_ids = SetToList(@)]
\* AppConfig(**raw) of the parsed file
FromJson(raw) == [raw EXCEPT !.known_issue_ids = ListToSet(@)]

VARIABLES
    config,      \* the global AppConfig object
    file,        \* content of config.json when it is a complete document
    partial,     \* TRUE while config.json is truncated or partly written
    pc,          \* pc[p]: where context p is in its code
    cfg,         \* background_worker's local cfg, while the iteration uses it
    interval,    \* background_worker's local interval, until it has slept it
    delay,       \* argument of the time.sleep the worker is in
    op,          \* the endpoint the api thread is running, and its body
    items,       \* run_check_once local, per context
    new_issues,  \* run_check_once local, per context
    idx,         \* position of the for loop of run_check_once, per context
    data,        \* save_config local, per context
    result,      \* what the endpoint / cycle returned or raised
    evloop,      \* the coroutine the event-loop thread is running
    pre,         \* history: config.known_issue_ids when the cycle started
    notified,    \* history: the payload the cycle posted to the webhook
    reported,    \* history: per id, in how many cycles' batches it was (<= 2)
    requests     \* how many requests the endpoints have received

vars == <<config, file, partial, pc, cfg, interval, delay, op, items,
          new_issues, idx, data, result, evloop, pre, notified, reported,
          requests>>

NoData == <<>>
NoOp == [name |-> "none", body |-> UpdateConfigRequest(<<>>, DefaultInterval, "None")]
Result(status, fetched, new) == [status |-> status, fetched |-> fetched, new |-> new]
NoResult == Result("none", 0, 0)


\* the process has started on a config.json that holds f: line 69 has run and
\* the worker thread is launched (lines 268-271)
Boot(f) ==
    /\ config = FromJson(f)
    /\ file = f
    /\ partial = FALSE
    /\ pc = [p \in Procs |-> IF p = "bg" THEN "load" ELSE "idle"]
    /\ cfg = DefaultConfig
    /\ interval = 0
    /\ delay = 0
    /\ op = NoOp
    /\ items = [p \in Cyclers |-> <<>>]
    /\ new_issues = [p \in Cyclers |-> <<>>]
    /\ idx = [p \in Cyclers |-> 0]
    /\ data = [p \in Procs |-> NoData]
    /\ result = [p \in Procs |-> NoResult]
    /\ evloop = "none"
    /\ pre = [p \in Cyclers |-> {}]
    /\ notified = [p \in Cyclers |-> <<>>]
    /\ reported = [i \in Ids |-> 0]
    /\ requests = 0

\* config.json as an earlier run left it after POST /config and
\* POST /watch/start
WatchingFile ==
    ToJson(AppConfig(SearchConfig(<<>>, DefaultInterval),
                     NotificationConfig("url"), TRUE, {}, <<>>))
\* config.json as earlier runs can have left it
Files ==
    {ToJson(AppConfig(SearchConfig(<<>>, DefaultInterval), NotificationConfig(u),
                      a, k, <<>>)) :
        u \in {"None", "url"}, a \in BOOLEAN, k \in SUBSET Ids}

\* a first start: load_config creates the default config.json, lines 39-49
Init == Boot(ToJson(DefaultConfig))

(* --------------------- scheduling of the contexts ---------------------- *)
\* a thread runs whenever the interpreter schedules it; a coroutine of the
\* event loop runs its synchronous stretch only while it holds the loop
Runs(p) == IF p \in Crons THEN evloop = p ELSE TRUE
CanResume(p) == IF p \in Crons THEN evloop = "none" ELSE TRUE
Held(p) == IF p \in Crons THEN p ELSE evloop
Released(p) == IF p \in Crons THEN "none" ELSE evloop

\* an exception leaving the code of context p: the endpoint answers with an
\* error status; the worker's except branch (lines 262-265) sleeps 30 s
RaiseMutant(p, kind) ==
    /\ pc' = [pc EXCEPT ![p] = IF p = "bg" THEN "stopped" ELSE "done"]
    /\ result' = [result EXCEPT ![p] = Result(kind, 0, 0)]
    /\ evloop' = Released(p)
    /\ delay' = delay
    /\ interval' = interval
Raise(p, kind) ==
    /\ pc' = [pc EXCEPT ![p] = IF p = "bg" THEN "backoff" ELSE "done"]
    /\ result' = [result EXCEPT ![p] = Result(kind, 0, 0)]
    /\ evloop' = Released(p)
    /\ delay' = IF p = "bg" THEN Backoff ELSE delay
    /\ interval' = IF p = "bg" THEN 0 ELSE interval

\* a cycle of context p ends normally: the endpoint returns res; the worker
\* goes on to time.sleep(interval) (line 261)
Finish(p, res) ==
    /\ pc' = [pc EXCEPT ![p] = IF p = "bg" THEN "sleep" ELSE "done"]
    /\ result' = [result EXCEPT ![p] = res]
    /\ evloop' = Released(p)
    /\ delay' = IF p = "bg" THEN interval ELSE delay
    /\ interval' = IF p = "bg" THEN 0 ELSE interval

(* ------------------------- run_check_once ------------------------------ *)
\* where the for loop of lines 205-211 stands once it is at position i of its
NextPc(its, i) == IF i > Len(its) THEN "set_last" ELSE "loop"

\* lines 196-200 up to the await of the search request
CheckActiveMutant(p) ==
    /\ pre' = [pre EXCEPT ![p] = config.known_issue_ids]
    /\ pc' = [pc EXCEPT ![p] = "fetch"]
    /\ UNCHANGED <<result, evloop, delay, interval>>
    /\ UNCHANGED <<config, file, partial, cfg, op, items, new_issues,
                   idx, data, notified, reported>>
CheckActive(p) ==
    /\ pre' = [pre EXCEPT ![p] = config.known_issue_ids]
    /\ IF ~config.is_active
       THEN Finish(p, Result("inactive", 0, 0))
       ELSE /\ pc' = [pc EXCEPT ![p] = "fetch"]
            /\ UNCHANGED <<result, evloop, delay, interval>>
    /\ UNCHANGED <<config, file, partial, cfg, op, items, new_issues,
                   idx, data, notified, reported>>

\* GET /cron/check: the event loop starts the coroutine
cron_check(c) ==
    /\ pc[c] = "idle"
    /\ requests < MaxRequests
    /\ requests' = requests + 1
    /\ CanResume(c)
    /\ CheckActive(c)

\* asyncio.run(run_check_once()) of the worker, line 257
RunCheckBg ==
    /\ pc["bg"] = "check"
    /\ requests' = requests
    /\ CheckActive("bg")

\* line 200: the search answered with its items, one of `fetches`
FetchOk(p, fetches) ==
    /\ pc[p] = "fetch"
    /\ CanResume(p)
    /\ \E its \in fetches :
          /\ items' = [items EXCEPT ![p] = its]
          /\ pc' = [pc EXCEPT ![p] = NextPc(its, 1)]
    /\ new_issues' = [new_issues EXCEPT ![p] = <<>>]
    /\ idx' = [idx EXCEPT ![p] = 1]
    /\ evloop' = Held(p)
    /\ UNCHANGED <<config, file, partial, cfg, interval, delay, op, data,
                   result, pre, notified, reported, requests>>

\* lines 201-202: httpx.HTTPError becomes HTTPException(502)
FetchFailMutant(p) ==
    /\ pc[p] = "fetch"
    /\ CanResume(p)
    /\ config' = [config EXCEPT !.last_items = <<>>]
    /\ Raise(p, "502")
    /\ UNCHANGED <<file, partial, cfg, op, items, new_issues,
                   idx, data, pre, notified, reported, requests>>
FetchFail(p) ==
    /\ pc[p] = "fetch"
    /\ CanResume(p)
    /\ Raise(p, "502")
    /\ UNCHANGED <<config, file, partial, cfg, op, items, new_issues,
                   idx, data, pre, notified, reported, requests>>

\* lines 206-209: one item of the loop is looked at
LoopCheckMutant(p) ==
    /\ pc[p] = "loop"
    /\ Runs(p)
    /\ LET iid == items[p][idx[p]]
       IN IF iid \in config.known_issue_ids
          THEN /\ idx' = [idx EXCEPT ![p] = @ + 1]
               /\ pc' = [pc EXCEPT ![p] = NextPc(items[p], idx[p] + 1)]
          ELSE /\ pc' = [pc EXCEPT ![p] = "add"]
               /\ idx' = idx
    /\ UNCHANGED <<config, file, partial, cfg, interval, delay, op, items,
                   new_issues, data, result, evloop, pre, notified, reported, requests>>
LoopCheck(p) ==
    /\ pc[p] = "loop"
    /\ Runs(p)
    /\ LET iid == items[p][idx[p]]
       IN IF iid = NoId \/ iid \in config.known_issue_ids
          THEN /\ idx' = [idx EXCEPT ![p] = @ + 1]
               /\ pc' = [pc EXCEPT ![p] = NextPc(items[p], idx[p] + 1)]
          ELSE /\ pc' = [pc EXCEPT ![p] = "add"]
               /\ idx' = idx
    /\ UNCHANGED <<config, file, partial, cfg, interval, delay, op, items,
                   new_issues, data, result, evloop, pre, notified, reported, requests>>

\* lines 210-211
LoopAddMutant(p) ==
    /\ pc[p] = "add"
    /\ Runs(p)
    /\ new_issues' = [new_issues EXCEPT ![p] = Append(@, items[p][idx[p]])]
    /\ idx' = [idx EXCEPT ![p] = @ + 1]
    /\ pc' = [pc EXCEPT ![p] = NextPc(items[p], idx[p] + 1)]
    /\ UNCHANGED <<config, file, partial, cfg, interval, delay, op, items, data,
                   result, evloop, pre, notified, reported, requests>>
LoopAdd(p) ==
    /\ pc[p] = "add"
    /\ Runs(p)
    /\ config' = [config EXCEPT !.known_issue_ids = @ \cup {items[p][idx[p]]}]
    /\ new_issues' = [new_issues EXCEPT ![p] = Append(@, items[p][idx[p]])]
    /\ idx' = [idx EXCEPT ![p] = @ + 1]
    /\ pc' = [pc EXCEPT ![p] = NextPc(items[p], idx[p] + 1)]
    /\ UNCHANGED <<file, partial, cfg, interval, delay, op, items, data,
                   result, evloop, pre, notified, reported, requests>>

\* line 214
SetLastMutant(p) ==
    /\ pc[p] = "set_last"
    /\ Runs(p)
    /\ config' = [config EXCEPT !.last_items = new_issues[p]]
    /\ pc' = [pc EXCEPT ![p] = "save_dict"]
    /\ UNCHANGED <<file, partial, cfg, interval, delay, op, items, new_issues,
                   idx, data, result, evloop, pre, notified, reported, requests>>
SetLast(p) ==
    /\ pc[p] = "set_last"
    /\ Runs(p)
    /\ config' = [config EXCEPT !.last_items = items[p]]
    /\ pc' = [pc EXCEPT ![p] = "save_dict"]
    /\ UNCHANGED <<file, partial, cfg, interval, delay, op, items, new_issues,
                   idx, data, result, evloop, pre, notified, reported, requests>>

(* ---------------------------- save_config ------------------------------ *)
\* lines 60-61
SaveDict(p) ==
    /\ pc[p] = "save_dict"
    /\ Runs(p)
    /\ data' = [data EXCEPT ![p] = ToJson(config)]
    /\ pc' = [pc EXCEPT ![p] = "save_open"]
    /\ UNCHANGED <<config, file, partial, cfg, interval, delay, op, items,
                   new_issues, idx, result, evloop, pre, notified, reported, requests>>

\* line 62: open(CONFIG_PATH, "w") truncates the file
SaveOpen(p) ==
    /\ pc[p] = "save_open"
    /\ Runs(p)
    /\ partial' = TRUE
    /\ pc' = [pc EXCEPT ![p] = "save_write"]
    /\ UNCHANGED <<config, file, cfg, interval, delay, op, items, new_issues,
                   idx, data, result, evloop, pre, notified, reported, requests>>

\* line 62 raising OSError: nothing was written
SaveFail(p) ==
    /\ pc[p] = "save_open"
    /\ Runs(p)
    /\ Raise(p, "500")
    /\ UNCHANGED <<config, file, partial, cfg, op, items, new_issues,
                   idx, data, pre, notified, reported, requests>>

\* line 63: json.dump and the close of the with block
SaveWriteMutant(p) ==
    /\ pc[p] = "save_write"
    /\ Runs(p)
    /\ file' = file
    /\ partial' = FALSE
    /\ data' = [data EXCEPT ![p] = NoData]
    /\ IF p = "api"
       THEN /\ pc' = [pc EXCEPT ![p] = "done"]
            /\ result' = [result EXCEPT ![p] = Result("ok", 0, 0)]
       ELSE /\ pc' = [pc EXCEPT ![p] = "notify"]
            /\ result' = result
    /\ UNCHANGED <<config, cfg, interval, delay, op, items, new_issues, idx,
                   evloop, pre, notified, reported, requests>>
SaveWrite(p) ==
    /\ pc[p] = "save_write"
    /\ Runs(p)
    /\ file' = data[p]
    /\ partial' = FALSE
    /\ data' = [data EXCEPT ![p] = NoData]
    /\ IF p = "api"
       THEN /\ pc' = [pc EXCEPT ![p] = "done"]
            /\ result' = [result EXCEPT ![p] = Result("ok", 0, 0)]
       ELSE /\ pc' = [pc EXCEPT ![p] = "notify"]
            /\ result' = result
    /\ UNCHANGED <<config, cfg, interval, delay, op, items, new_issues, idx,
                   evloop, pre, notified, reported, requests>>

(* ------------------- notification and the summary ---------------------- *)
Take(s, n) == SubSeq(s, 1, Min(Len(s), n))
\* the payload of send_discord_webhook, lines 157-180
PayloadMutant(issues) ==
    [count |-> Len(Take(issues, MaxEmbeds)), embeds |-> Take(issues, MaxEmbeds)]
Payload(issues) == [count |-> Len(issues), embeds |-> Take(issues, MaxEmbeds)]
\* lines 221-225
Summary(p) == Result("summary", Len(items[p]), Len(new_issues[p]))
Bump(r, issues) ==
    [i \in Ids |-> IF i \in ListToSet(issues) THEN Min(r[i] + 1, 2) ELSE r[i]]

\* lines 218-219 up to the await of the POST (line 183), or lines 218-227
Notify(p) ==
    /\ pc[p] = "notify"
    /\ Runs(p)
    /\ reported' = Bump(reported, new_issues[p])
    /\ IF new_issues[p] # <<>> /\ config.notif.webhook_url # "None"
       THEN /\ notified' = [notified EXCEPT ![p] = Payload(new_issues[p])]
            /\ pc' = [pc EXCEPT ![p] = "post"]
            /\ evloop' = Released(p)
            /\ UNCHANGED <<result, delay, interval>>
       ELSE /\ notified' = notified
            /\ Finish(p, Summary(p))
    /\ UNCHANGED <<config, file, partial, cfg, op, items, new_issues,
                   idx, data, pre, requests>>

\* line 183 answered; lines 221-227
PostOk(p) ==
    /\ pc[p] = "post"
    /\ CanResume(p)
    /\ Finish(p, Summary(p))
    /\ UNCHANGED <<config, file, partial, cfg, op, items, new_issues,
                   idx, data, pre, notified, reported, requests>>

\* line 183 raised (timeout, connection error): nothing catches it
PostFail(p) ==
    /\ pc[p] = "post"
    /\ CanResume(p)
    /\ Raise(p, "500")
    /\ UNCHANGED <<config, file, partial, cfg, op, items, new_issues,
                   idx, data, pre, notified, reported, requests>>

\* the response of an endpoint has been sent; its locals are gone
Return(p) ==
    /\ p # "bg"
    /\ pc[p] = "done"
    /\ pc' = [pc EXCEPT ![p] = "idle"]
    /\ result' = [result EXCEPT ![p] = NoResult]
    /\ data' = [data EXCEPT ![p] = NoData]
    /\ IF p \in Crons
       THEN /\ items' = [items EXCEPT ![p] = <<>>]
            /\ new_issues' = [new_issues EXCEPT ![p] = <<>>]
            /\ idx' = [idx EXCEPT ![p] = 0]
            /\ pre' = [pre EXCEPT ![p] = {}]
            /\ notified' = [notified EXCEPT ![p] = <<>>]
            /\ op' = op
       ELSE /\ op' = NoOp
            /\ UNCHANGED <<items, new_issues, idx, pre, notified>>
    /\ UNCHANGED <<config, file, partial, cfg, interval, delay, evloop, reported, requests>>

(* ------------------------- background_worker --------------------------- *)
\* the time.sleep of line 261 or 265 is over: the while loop goes round
BgWake ==
    /\ pc["bg"] \in {"sleep", "backoff"}
    /\ pc' = [pc EXCEPT !["bg"] = "load"]
    /\ items' = [items EXCEPT !["bg"] = <<>>]
    /\ new_issues' = [new_issues EXCEPT !["bg"] = <<>>]
    /\ idx' = [idx EXCEPT !["bg"] = 0]
    /\ data' = [data EXCEPT !["bg"] = NoData]
    /\ pre' = [pre EXCEPT !["bg"] = {}]
    /\ notified' = [notified EXCEPT !["bg"] = <<>>]
    /\ result' = [result EXCEPT !["bg"] = NoResult]
    /\ delay' = 0
    /\ UNCHANGED <<config, file, partial, cfg, interval, op, evloop,
                   reported, requests>>

\* line 246: load_config, lines 51-56; json.load raises on a file that is
\* truncated or partly written
load_config ==
    /\ pc["bg"] = "load"
    /\ IF partial
       THEN /\ Raise("bg", "error")
            /\ cfg' = cfg
       ELSE /\ cfg' = FromJson(file)
            /\ pc' = [pc EXCEPT !["bg"] = "copy_search"]
            /\ UNCHANGED <<result, evloop, delay, interval>>
    /\ UNCHANGED <<config, file, partial, op, items, new_issues, idx,
                   data, pre, notified, reported, requests>>

\* one of the assignments of lines 248-252
BgCopy(at, field, next) ==
    /\ pc["bg"] = at
    /\ config' = [config EXCEPT ![field] = cfg[field]]
    /\ pc' = [pc EXCEPT !["bg"] = next]
    /\ UNCHANGED <<file, partial, cfg, interval, delay, op, items, new_issues,
                   idx, data, result, evloop, pre, notified, reported, requests>>
BgCopySearch == BgCopy("copy_search", "search", "copy_notif")
BgCopyNotif == BgCopy("copy_notif", "notif", "copy_active")
BgCopyActive == BgCopy("copy_active", "is_active", "copy_known")
BgCopyKnown == BgCopy("copy_known", "known_issue_ids", "copy_last")
BgCopyLast == BgCopy("copy_last", "last_items", "branch")

\* lines 254-261: the interval, then a cycle or the idle sleep
BgBranch ==
    /\ pc["bg"] = "branch"
    /\ LET ival == max(cfg.search.polling_interval, PollFloor)
       IN IF cfg.is_active
          THEN /\ pc' = [pc EXCEPT !["bg"] = "check"]
               /\ interval' = ival
               /\ delay' = delay
          ELSE /\ pc' = [pc EXCEPT !["bg"] = "sleep"]
               /\ interval' = 0
               /\ delay' = ival
    /\ cfg' = DefaultConfig
    /\ UNCHANGED <<config, file, partial, op, items, new_issues, idx, data,
                   result, evloop, pre, notified, reported, requests>>

(* ------------------------ synchronous endpoints ------------------------ *)
ApiStart(name, body, field, value, next) ==
    /\ pc["api"] = "idle"
    /\ requests < MaxRequests
    /\ requests' = requests + 1
    /\ op' = [name |-> name, body |-> body]
    /\ config' = [config EXCEPT ![field] = value]
    /\ pc' = [pc EXCEPT !["api"] = next]
    /\ UNCHANGED <<file, partial, cfg, interval, delay, items, new_issues, idx,
                   data, result, evloop, pre, notified, reported>>

\* POST /config, line 87
update_config(body) ==
    ApiStart("update_config", body, "search", body.search, "upd_notif")
\* line 88
UpdateNotif ==
    /\ pc["api"] = "upd_notif"
    /\ config' = [config EXCEPT !.notif = op.body.notif]
    /\ pc' = [pc EXCEPT !["api"] = "save_dict"]
    /\ UNCHANGED <<file, partial, cfg, interval, delay, op, items, new_issues,
                   idx, data, result, evloop, pre, notified, reported, requests>>
\* POST /watch/start, line 96
start_watch == ApiStart("start_watch", NoOp.body, "is_active", TRUE, "save_dict")
\* POST /watch/stop, line 104
stop_watch == ApiStart("stop_watch", NoOp.body, "is_active", FALSE, "save_dict")
\* GET /health, line 81: the flag of the global config
health == config.is_active
\* GET /issues, lines 113-114: load_config (lines 51-56) on the thread of the
\* request; json.load raises on a file that is truncated or partly written,
\* else the answer carries cfg.last_items (recorded by its length)
get_issues ==
    /\ pc["api"] = "idle"
    /\ requests < MaxRequests
    /\ requests' = requests + 1
    /\ op' = [name |-> "get_issues", body |-> NoOp.body]
    /\ IF partial
       THEN Raise("api", "500")
       ELSE /\ pc' = [pc EXCEPT !["api"] = "done"]
            /\ result' = [result EXCEPT !["api"] =
                              Result("items", Len(FromJson(file).last_items), 0)]
            /\ UNCHANGED <<evloop, delay, interval>>
    /\ UNCHANGED <<config, file, partial, cfg, items, new_issues, idx, data,
                   pre, notified, reported>>

(* ---------------------------- specifications --------------------------- *)
\* what a context does once its request or iteration has begun
Step(p, fetches) ==
    \/ FetchOk(p, fetches)
    \/ FetchFail(p)
    \/ LoopCheck(p)
    \/ LoopAdd(p)
    \/ SetLast(p)
    \/ SaveDict(p)
    \/ SaveOpen(p)
    \/ SaveFail(p)
    \/ SaveWrite(p)
    \/ Notify(p)
    \/ PostOk(p)
    \/ PostFail(p)
    \/ Return(p)

\* an iteration of the worker's loop outside run_check_once
Iteration ==
    \/ load_config
    \/ BgCopySearch
    \/ BgCopyNotif
    \/ BgCopyActive
    \/ BgCopyKnown
    \/ BgCopyLast
    \/ BgBranch
    \/ RunCheckBg
Worker == BgWake \/ Iteration

\* the requests of the synchronous endpoints
Control(bodies) ==
    \/ \E b \in bodies : update_config(b)
    \/ UpdateNotif
    \/ start_watch
    \/ stop_watch

\* the worker, the thread pool and one on-demand trigger at a time,
\* interleaved at every access to shared state
Next ==
    \/ cron_check("c1")
    \/ Control(SmallBodies)
    \/ get_issues
    \/ Worker
    \/ \E p \in {"c1", "bg", "api"} : Step(p, SmallFetch)

Spec == Init /\ [][Next]_vars

\* the worker and two on-demand triggers, on a watch an earlier run started
InitCron == Boot(WatchingFile)
NextCron ==
    \/ \E c \in Crons : cron_check(c)
    \/ Worker
    \/ \E p \in Cyclers : Step(p, SmallFetch)
SpecCron == InitCron /\ [][NextCron]_vars

\* the process is stopped and started again: line 69 reloads config.json, the
\* worker thread starts over and every request in progress is gone
Restart ==
    /\ ~partial
    /\ config' = FromJson(file)
    /\ pc' = [p \in Procs |-> IF p = "bg" THEN "load" ELSE "idle"]
    /\ cfg' = DefaultConfig
    /\ interval' = 0
    /\ delay' = 0
    /\ op' = NoOp
    /\ items' = [p \in Cyclers |-> <<>>]
    /\ new_issues' = [p \in Cyclers |-> <<>>]
    /\ idx' = [p \in Cyclers |-> 0]
    /\ data' = [p \in Procs |-> NoData]
    /\ result' = [p \in Procs |-> NoResult]
    /\ evloop' = "none"
    /\ pre' = [p \in Cyclers |-> {}]
    /\ notified' = [p \in Cyclers |-> <<>>]
    /\ UNCHANGED <<file, partial, reported, requests>>

\* no request is being served and the worker sleeps
Quiet ==
    /\ \A p \in Procs \ {"bg"} : pc[p] = "idle"
    /\ pc["bg"] \in {"sleep", "backoff"}

\* requests and worker iterations run one after another, each to its end,
\* with restarts in between, on a watch an earlier run started
SeqFetch == {<<>>, <<1>>, <<NoId, 1>>, <<1, 1>>}
InitSeq == Boot(WatchingFile)
NextSeq ==
    \/ Quiet /\ cron_check("c1")
    \/ Quiet /\ Control(SmallBodies)
    \/ Quiet /\ BgWake
    \/ Quiet /\ Restart
    \/ UpdateNotif
    \/ Iteration
    \/ \E p \in {"c1", "bg", "api"} : Step(p, SeqFetch)
SpecSeq == InitSeq /\ [][NextSeq]_vars

\* one on-demand cycle alone, on any config.json earlier runs can have left
\* and any answer of the search
InitCycle == \E f \in Files : Boot(f)
NextCycle ==
    \/ requests = 0 /\ cron_check("c1")
    \/ Step("c1", FetchResults)
SpecCycle == InitCycle /\ [][NextCycle]_vars

\* the worker and the synchronous endpoints, on a watch an earlier run
\* started; the worker thread is always scheduled again, its sleeps end and
\* its network calls time out
NextLoop ==
    \/ requests < LoopRequests /\ Control(Bodies)
    \/ UpdateNotif
    \/ Worker
    \/ \E p \in {"bg", "api"} : Step(p, SmallFetch)
BgStep == Worker \/ Step("bg", SmallFetch)
SpecLoop == InitCron /\ [][NextLoop]_vars /\ WF_vars(BgStep)

\* one on-demand cycle after another, on a started watch with or without a
\* webhook, the search answering with up to MaxBatch items never seen before
LongFetch == {[i \in 1..n |-> i] : n \in 0..MaxBatch}
InitNotify ==
    \E u \in {"None", "url"} :
        Boot(ToJson(AppConfig(SearchConfig(<<>>, DefaultInterval),
                              NotificationConfig(u), TRUE, {}, <<>>)))
NextNotify ==
    \/ cron_check("c1")
    \/ Step("c1", LongFetch)
SpecNotify == InitNotify /\ [][NextNotify]_vars

\* the worker and POST /watch/stop, on a watch an earlier run started; no
\* request starts the watch again
NextStop ==
    \/ stop_watch
    \/ Worker
    \/ \E p \in {"bg", "api"} : Step(p, SmallFetch)
SpecStop == InitCron /\ [][NextStop]_vars

(* ------------------------------ claims --------------------------------- *)
\* the identifiers a list of items carries
IdsOf(its) == ListToSet(its) \ {NoId}
RECURSIVE NewOf(_, _)
\* the items of `its` whose identifier is not in `seen`, each identifier once,
\* in the order of `its`
NewOf(its, seen) ==
    IF its = <<>> THEN <<>>
    ELSE IF Head(its) = NoId \/ Head(its) \in seen
         THEN NewOf(Tail(its), seen)
         ELSE <<Head(its)>> \o NewOf(Tail(its), seen \cup {Head(its)})

\* context p takes the first step of run_check_once
CycleBegins(p) ==
    IF p = "bg" THEN pc[p] = "check" /\ pc'[p] # "check"
    ELSE pc[p] = "idle" /\ pc'[p] # "idle"
\* where an exception or a return leaves context p
Raised(p) == IF p = "bg" THEN "backoff" ELSE "done"
Returned(p) == IF p = "bg" THEN "sleep" ELSE "done"
\* context p is between the dedup loop and the end of its save
Mutating(p) ==
    pc[p] \in {"loop", "add", "set_last", "save_dict", "save_open", "save_write"}
\* the worker is copying the reloaded fields into config
Copying ==
    pc["bg"] \in {"copy_search", "copy_notif", "copy_active", "copy_known",
                  "copy_last"}
\* context p has written to config and its write of config.json is not over
Writing(p) ==
    \/ pc[p] \in {"save_dict", "save_open", "save_write"}
    \/ p = "api" /\ pc[p] = "upd_notif"
    \/ p \in Cyclers /\ pc[p] \in {"loop", "add", "set_last"} /\ new_issues[p] # <<>>
    \/ p = "bg" /\ pc[p] \in {"copy_notif", "copy_active", "copy_known", "copy_last"}

\* C1: over cycles run one after another, restarts included, no identifier
\* is in the new-items batch of more than one cycle
C1_NoIdReportedTwice == \A i \in Ids : reported[i] <= 1
\* a cycle has fetched an identifier that an earlier cycle reported, and has
\* left it out of its batch
C1_Witness ==
    \E p \in Cyclers : \E i \in Ids :
        /\ pc[p] = Returned(p)
        /\ result[p].status = "summary"
        /\ i \in IdsOf(items[p])
        /\ i \notin IdsOf(new_issues[p])
        /\ reported[i] = 1

\* C2: no step removes an identifier from known_issue_ids, in memory or in
\* config.json
C2_Original ==
    [][/\ config.known_issue_ids \subseteq config'.known_issue_ids
       /\ ListToSet(file.known_issue_ids) \subseteq ListToSet(file'.known_issue_ids)]_vars

\* C3: a cycle that finds is_active false returns the no-op result at once:
\* no fetch, config and config.json untouched, nothing sent
C3_InactiveCycleIsNoOp ==
    [][\A p \in Cyclers :
        (CycleBegins(p) /\ ~config.is_active) =>
            /\ pc'[p] = Returned(p)
            /\ result'[p].status = "inactive"
            /\ UNCHANGED <<config, file, partial, items, new_issues, notified,
                           reported>>]_vars
C3_Witness ==
    /\ pc["c1"] = "done"
    /\ result["c1"].status = "inactive"
    /\ config.notif.webhook_url = "url"
    /\ config.known_issue_ids # {}
    /\ notified["c1"] = <<>>

\* C4: from the start of an active cycle to the failure of its fetch nothing
\* is written to config or config.json and nothing is sent, and the failure
\* reaches the caller as the 502 error
C4_FetchFailureAborts ==
    [][\A p \in Cyclers :
        /\ (CycleBegins(p) /\ config.is_active) =>
              /\ pc'[p] = "fetch"
              /\ UNCHANGED <<config, file, partial, notified, reported>>
        /\ (pc[p] = "fetch" /\ pc'[p] \notin {"fetch", "loop", "set_last"}) =>
              /\ pc'[p] = Raised(p)
              /\ result'[p].status = "502"
              /\ notified[p] = <<>>
              /\ UNCHANGED <<config, file, partial, notified, reported>>]_vars
C4_Witness ==
    /\ pc["c1"] = "done"
    /\ result["c1"].status = "502"
    /\ config.known_issue_ids # {}
    /\ config.last_items # <<>>
    /\ config.notif.webhook_url = "url"

\* C5: once the loop of an active cycle is over, its batch is the fetched
\* items with an identifier that was not in known_issue_ids when the cycle
\* began, each identifier once, in fetch order, and known_issue_ids is its
\* value at the start united with the fetched identifiers
LoopOver(p) ==
    \/ pc[p] \in {"set_last", "save_dict", "save_open", "save_write", "notify",
                  "post"}
    \/ pc[p] = "done" /\ result[p].status = "summary"
C5_BatchIsTheUnseen ==
    \A p \in Crons :
        LoopOver(p) =>
            /\ new_issues[p] = NewOf(items[p], pre[p])
            /\ config.known_issue_ids = pre[p] \cup IdsOf(items[p])
C5_Witness ==
    /\ pc["c1"] = "done"
    /\ result["c1"] = Result("summary", 3, 2)
    /\ items["c1"] = <<1, 2, 3>>
    /\ pre["c1"] = {2}
    /\ new_issues["c1"] = <<1, 3>>
    /\ config.known_issue_ids = {1, 2, 3}

\* the batch a cycle of context p has reported: new_issues once the cycle
\* has saved and gone on to the notification and the summary
Batch(p) ==
    IF \/ pc[p] = "post"
       \/ pc[p] = "done" /\ (result[p].status = "summary" \/ notified[p] # <<>>)
    THEN new_issues[p] ELSE <<>>

\* C6: two on-demand cycles in progress together never both report the same
\* identifier as new
C6_Original ==
    \A i \in Ids : ~(i \in IdsOf(Batch("c1")) /\ i \in IdsOf(Batch("c2")))

\* C7: an on-demand cycle never mutates known_issue_ids / last_items while
\* the worker is copying the reloaded state or mutating them in its own cycle
C7_Original == \A c \in Crons : ~(Mutating(c) /\ (Copying \/ Mutating("bg")))

\* C8: at most one context at a time is between its first write to config
\* and the end of its write of config.json
C8_Original == Cardinality({p \in Procs : Writing(p)}) <= 1

\* C9: the worker's loop never stops: every error that leaves an iteration
\* leads to the 30 s sleep, and the loop begins an iteration again and again
C9_LoopNeverStops ==
    /\ [](pc["bg"] = "backoff" => delay = Backoff)
    /\ []<>(pc["bg"] = "load")
C9_Witness ==
    /\ pc["bg"] = "backoff"
    /\ result["bg"].status = "500"
    /\ delay = Backoff

\* C10: the delay the worker sleeps after an iteration is the reloaded
\* polling_interval raised to the 30 s floor, and no sleep is shorter
Clamped(n) == IF n < PollFloor THEN PollFloor ELSE n
C10_IntervalIsClamped ==
    /\ [][pc["bg"] = "branch" /\ pc'["bg"] # "branch" =>
            IF pc'["bg"] = "sleep"
            THEN delay' = Clamped(cfg.search.polling_interval)
            ELSE interval' = Clamped(cfg.search.polling_interval)]_vars
    /\ [][pc["bg"] \notin {"branch", "sleep"} /\ pc'["bg"] = "sleep" =>
            delay' = interval]_vars
    /\ [](pc["bg"] \in {"sleep", "backoff"} => delay >= PollFloor)
C10_Witness ==
    /\ pc["bg"] = "sleep"
    /\ ~partial
    /\ file.search.polling_interval < PollFloor
    /\ file.is_active
    /\ delay = PollFloor

\* C11: the cycle's save_config is over before its POST to the webhook
\* begins: while the POST is pending config.json is complete and holds every
\* identifier the cycle added and the fetched list; a failing POST changes
\* neither config nor config.json, so both still hold them afterwards
Persisted(p) ==
    /\ ~partial
    /\ IdsOf(new_issues[p]) \subseteq ListToSet(file.known_issue_ids)
    /\ file.last_items = items[p]
InMemory(p) ==
    /\ IdsOf(new_issues[p]) \subseteq config.known_issue_ids
    /\ config.last_items = items[p]
C11_SavedBeforeNotified ==
    /\ [](\A p \in Cyclers : pc[p] = "post" => Persisted(p) /\ InMemory(p))
    /\ [][\A p \in Cyclers :
            (pc[p] = "post" /\ pc'[p] # "post"
                            /\ result'[p].status # "summary") =>
                /\ pc'[p] = Raised(p)
                /\ UNCHANGED <<config, file, partial, items, new_issues>>
                /\ Persisted(p)' /\ InMemory(p)']_vars
C11_Witness ==
    \E p \in Cyclers :
        /\ pc[p] = Raised(p)
        /\ result[p].status = "500"
        /\ notified[p] # <<>>
        /\ new_issues[p] = <<1>>
        /\ 1 \notin pre[p]
        /\ 1 \in ListToSet(file.known_issue_ids)
        /\ 1 \in config.known_issue_ids

\* C12: whatever the outcome of the POST to the webhook, the cycle ends with
\* the summary of what it fetched and found new, and with no error
C12_Original ==
    [][\A p \in Cyclers :
        (pc[p] = "post" /\ pc'[p] # "post") =>
            /\ pc'[p] = Returned(p)
            /\ result'[p] = Result("summary", Len(items[p]), Len(new_issues[p]))]_vars

\* C13: when save_config returns to update_config, start_watch or stop_watch
\* (the endpoint then answers with its confirmation), config.json holds the
\* value the endpoint set, whatever the worker and the on-demand cycle did
\* in between
Holds(f) ==
    /\ op.name = "update_config" =>
          f.search = op.body.search /\ f.notif = op.body.notif
    /\ op.name = "start_watch" => f.is_active
    /\ op.name = "stop_watch" => ~f.is_active
C13_Original ==
    [][(pc["api"] = "save_write" /\ pc'["api"] = "done"
                                 /\ result'["api"].status = "ok") =>
            ~partial' /\ Holds(file')]_vars

\* C14: no load_config, whether of GET /issues or of the worker, finds
\* config.json truncated or partly written by a save_config in progress
LoadFailed(p) ==
    /\ pc[p] = Raised(p)
    /\ IF p = "bg" THEN result[p].status = "error"
       ELSE op.name = "get_issues" /\ result[p].status = "500"
C14_Original == ~LoadFailed("bg") /\ ~LoadFailed("api")

\* C15: when the write of config.json fails in update_config, start_watch,
\* stop_watch or a cycle, config is afterwards what config.json holds and
\* the caller gets an error
C15_Original ==
    [][\A p \in Procs :
        (pc[p] = "save_open" /\ pc'[p] = Raised(p)) =>
            /\ result'[p].status = "500"
            /\ ~partial'
            /\ config' = FromJson(file')]_vars

\* C16: what load_config reads back from the config.json a save_config has
\* just written is the saved config in every field (search, notif,
\* is_active, known_issue_ids as a set, last_items as a list); and saving what
\* load_config reads from any config.json, then loading again, gives the
\* same config
SameState(a, b) ==
    /\ a.search = b.search
    /\ a.notif = b.notif
    /\ a.is_active = b.is_active
    /\ a.known_issue_ids = b.known_issue_ids
    /\ a.last_items = b.last_items
    /\ DOMAIN a = DOMAIN b
C17_OneMessageFiveCards ==
    /\ [](\A p \in Cyclers :
            pc[p] = "post" =>
                LET n == Len(new_issues[p])
                    m == notified[p]
                IN /\ n >= 1
                   /\ config.notif.webhook_url # "None"
                   /\ m.count = n
                   /\ Len(m.embeds) = IF n < MaxEmbeds THEN n ELSE MaxEmbeds
                   /\ \A i \in 1..Len(m.embeds) : m.embeds[i] = new_issues[p][i])
    /\ [][\A p \in Cyclers :
            /\ (pc[p] = "notify" /\ pc'[p] # "notify") =>
                  IF new_issues[p] # <<>> /\ config.notif.webhook_url # "None"
                  THEN pc'[p] = "post"
                  ELSE pc'[p] = Returned(p) /\ notified'[p] = <<>>
            /\ (pc[p] # "post" /\ pc'[p] = "post") => pc[p] = "notify"]_vars
C17_Witness ==
    /\ pc["c1"] = "post"
    /\ Len(new_issues["c1"]) = 7
    /\ notified["c1"] = [count |-> 7, embeds |-> <<1, 2, 3, 4, 5>>]

\* the step ends a cycle of context p whose fetch had succeeded
FetchedCycleEnds(p) ==
    /\ pc[p] \in {"save_open", "notify", "post"}
    /\ pc'[p] \in {Raised(p), Returned(p)}
StopReturned ==
    /\ pc["api"] = "done"
    /\ op.name = "stop_watch"
    /\ result["api"].status = "ok"
\* C19: once stop_watch has returned and nothing starts the watch again,
\* whenever the worker is back in its sleep (the cycle it had in flight is
\* over) is_active is false in config and in config.json, and every
\* iteration the worker begins from then on reloads is_active false, so it
\* fetches nothing
C19_Original ==
    /\ []((StopReturned /\ pc["bg"] \in {"sleep", "backoff"}) =>
            ~config.is_active /\ ~partial /\ ~file.is_active)
    /\ [][(StopReturned /\ pc["bg"] = "load" /\ pc'["bg"] = "copy_search") =>
            ~cfg'.is_active]_vars

\* C20: whenever no request is being served and the worker sleeps, config
\* equals what config.json holds in every field: GET /health reports the
\* persisted is_active and GET /issues returns config.last_items
C20_Original ==
    Quiet =>
        /\ ~partial
        /\ config = FromJson(file)
        /\ health = FromJson(file).is_active
        /\ FromJson(file).last_items = config.last_items

====
